---- MODULE Spec2Model ----
(***************************************************************************)
(* Chat support server: the in-memory stores (MemStorage), the Express     *)
(* handlers for session open, message submit, message status and feedback, *)
(* and the background generation job with its Python child process.       *)
(*                                                                         *)
(* Every `await` of a handler is a point where other handlers and jobs may *)
(* run, so each handler is cut into one action per stretch of code between *)
(* two awaits.  The storage interface is asynchronous (IStorage returns    *)
(* Promises), and the stretch of a storage method itself is synchronous.   *)
(***************************************************************************)
EXTENDS Integers, Sequences, FiniteSets, TLC

\* ------------------------------------------------------------------ bounds
MaxMsgs == 2       \* message records a run may create
MaxFiles == 1      \* attachments per submit
MaxClock == 2      \* last value of the millisecond clock
MaxFbReqs == 2     \* feedback requests in flight at once
MaxFeedback == 2   \* feedback records a run may create
MaxOpenReqs == 2   \* session-open requests in flight at once
MaxSessions == 2   \* session records a run may create
MaxPolls == 2      \* loadMessages calls of the widget in flight at once
FeedbackMaxRequests == 2   \* rateLimit(20, ...) of POST /api/feedback, scaled down
MessageMaxRequests == 3    \* rateLimit(30, ...) of POST /api/chat/message, scaled down
SessionMaxRequests == 4    \* rateLimit(50, ...) of POST /api/chat/session, scaled down
WindowMs == 1              \* the 15 minutes of a window, in ticks of the clock

\* ------------------------------------------------------- values of the code
Undefined == "<undefined>"
Null == "<null>"
NaN == 0 - 1                      \* parseInt's not-a-number, unequal to itself
SessionIds == {"s1", "s2"}
ClientIps == {"ip1", "ip2"}         \* req.ip of the clients
Routes == {"/api/chat/session", "/api/chat/message", "/api/feedback"}
FallbackText == "I have processed your message."
TimeoutError == "Python script execution timeout (30s)"

\* JavaScript truthiness of the (string-or-absent) values the code tests
Truthy(v) == v \notin {Undefined, Null, ""}

\* `a || b`
OrElse(a, b) == IF Truthy(a) THEN a ELSE b

\* ---------------------------------------------------------------- JSON
\* A JSON value: an object is the set of its <<key, value>> members.
JObject(members) == [t |-> "object", f |-> members]
JNull == [t |-> "null", f |-> {}]
NoOutput == [t |-> "undefined", f |-> {}]

\* `v?.key`
Field(v, key) ==
  IF v.t = "object" /\ \E p \in v.f : p[1] = key
    THEN (CHOOSE p \in v.f : p[1] = key)[2]
    ELSE Undefined

\* JSON.stringify of the values the server serialises (objects of at most one member)
JSONStringify(v) ==
  IF v.t = "null" THEN "null"
  ELSE IF v.f = {} THEN "{}"
  ELSE LET p == CHOOSE q \in v.f : TRUE
       IN "{\"" \o p[1] \o "\":\"" \o p[2] \o "\"}"

\* what the generator may print on stdout (already trimmed)
Stdouts ==
  { "{\"response\":\"hi there\"}", "{\"intent\":\"greet\"}", "null", "plain text", "" }

\* what the generator may print on stderr
Stderrs == { "", "Traceback" }

\* how a run of the generator may end: <<exit code, stdout, stderr>>
ProcessExits ==
  { <<0, out, "">> : out \in Stdouts } \cup { <<1, "", err>> : err \in Stderrs }

ErrorTexts ==
  { "Python script not found", "Invalid file path", "Traceback",
    "Python script exited with code 1", "Failed to execute Python script",
    TimeoutError, "Processing failed" }

JsonValues ==
  { JObject({<<"response", "hi there">>}), JObject({<<"response", "plain text">>}),
    JObject({<<"response", "">>}), JObject({<<"intent", "greet">>}), JNull }
  \cup { JObject({<<"error", e>>}) : e \in ErrorTexts }

\* JSON.parse: the value whose text this is, or a SyntaxError
JSONParse(s) ==
  IF \E v \in JsonValues : JSONStringify(v) = s
    THEN [ok |-> TRUE, value |-> CHOOSE v \in JsonValues : JSONStringify(v) = s]
    ELSE [ok |-> FALSE, value |-> NoOutput]

\* ---------------------------------------------------------------- state
VARIABLES
  clock,              \* Date.now() / new Date()
  sessions,           \* MemStorage.sessions: sessionId -> record
  sessionIdCounter,
  messages,           \* MemStorage.messages: id -> record
  messageIdCounter,
  files,              \* MemStorage.files: id -> record
  fileIdCounter,
  feedback,           \* MemStorage.feedback: id -> record
  feedbackIdCounter,
  life,               \* per message: where its submit handler and its job stand
  open,               \* per session-open request: where its handler stands
  fb,                 \* per feedback request: where its handler stands
  statusReq,          \* the status request: where its handler stands, its last answer
  rateLimitStore,     \* routes.ts rateLimitStore: req.ip -> { count, resetTime }
  refused,            \* the last answer given in place of a handler's result
  passed,             \* history: per client, the windows begun so far and, per
                      \* route, the requests let pass in the latest window
  widget,             \* widget.js: `state`, fastPollingInterval, the chat input
  polls               \* widget.js: the loadMessages calls awaiting their fetch

vars == << clock, sessions, sessionIdCounter, messages, messageIdCounter, files,
           fileIdCounter, feedback, feedbackIdCounter, life, open, fb, statusReq,
           rateLimitStore, refused, passed, widget, polls >>

msgVars == << messages, messageIdCounter, files, fileIdCounter, life >>
fbVars == << sessions, sessionIdCounter, feedback, feedbackIdCounter, open, fb >>
cliVars == << widget, polls >>
getVars == << statusReq >>
midVars == << rateLimitStore, refused, passed >>
srvVars == << clock, msgVars, fbVars, getVars, midVars >>

\* ------------------------------------------------------------ MemStorage
\* the record createChatMessage stores: the spread of the insert comes first, so
\* processingStatus and pythonResponse of the insert are overwritten
NewChatMessage(insert, id, now) ==
  [ id |-> id,
    sessionId |-> insert.sessionId,
    sender |-> insert.sender,
    timestamp |-> now,
    processingStatus |-> "pending",
    pythonResponse |-> Null,
    message |-> OrElse(insert.message, Null),
    hasFiles |-> insert.hasFiles ]

\* an update that writes the status and never the output
UpdateMessageStatusOnly(msgs, messageId, status, pythonResponse) ==
  IF messageId \in DOMAIN msgs
    THEN [msgs EXCEPT ![messageId].processingStatus = status]
    ELSE msgs

UpdateMessageStatus(msgs, messageId, status, pythonResponse) ==
  IF messageId \in DOMAIN msgs
    THEN [msgs EXCEPT ![messageId].processingStatus = status,
                      ![messageId].pythonResponse =
                          IF Truthy(pythonResponse) THEN pythonResponse ELSE @]
    ELSE msgs

\* f with key k bound to v
Put(f, k, v) == [x \in DOMAIN f \cup {k} |-> IF x = k THEN v ELSE f[x]]

\* Array.from(map.values()): the ids in insertion order, which is id order because
\* ids only grow and Map.set of a present key keeps its place
RECURSIVE InsertionOrder(_)
InsertionOrder(ids) ==
  IF ids = {} THEN << >>
  ELSE LET first == CHOOSE x \in ids : \A y \in ids : x <= y
       IN << first >> \o InsertionOrder(ids \ {first})

\* the comparator of the sort: a before b when a.timestamp - b.timestamp <= 0;
\* Array.prototype.sort is stable, so equal timestamps keep their order
RECURSIVE SortByTimestamp(_, _)
SortByTimestamp(msgs, seq) ==
  IF seq = << >> THEN << >>
  ELSE LET n == Len(seq)
           last == seq[n]
           sorted == SortByTimestamp(msgs, SubSeq(seq, 1, n - 1))
           k == Cardinality({i \in 1 .. Len(sorted) :
                               msgs[sorted[i]].timestamp - msgs[last].timestamp <= 0})
       IN SubSeq(sorted, 1, k) \o << last >> \o SubSeq(sorted, k + 1, Len(sorted))

\* a sort with the comparator turned round: newest first
GetChatMessagesNewestFirst(msgs, sessionId) ==
  LET ids == SortByTimestamp(msgs,
               InsertionOrder({m \in DOMAIN msgs : msgs[m].sessionId = sessionId}))
  IN [i \in 1 .. Len(ids) |-> msgs[ids[Len(ids) + 1 - i]]]

\* getChatMessages: filter on sessionId, then sort on timestamp
GetChatMessages(msgs, sessionId) ==
  LET ids == SortByTimestamp(msgs,
               InsertionOrder({m \in DOMAIN msgs : msgs[m].sessionId = sessionId}))
  IN [i \in 1 .. Len(ids) |-> msgs[ids[i]]]

\* ------------------------------------------------- POST /api/chat/message
\* inputs of a submit: multipart fields and the uploaded files
SubmitSenders == {"user", "bot", Undefined}
SubmitBodies == {Undefined, "", "hello"}

\* insertChatMessageSchema.parse: sessionId and sender are required texts,
\* message and hasFiles are optional
SchemaAccepts(data) ==
  data.sessionId # Undefined /\ data.sender # Undefined

\* a user message whose job may still add a bot reply
AwaitsReply(m) == messages[m].sender = "user" /\ life[m].pc # "done"

\* room left in the run for the records a submit (and its reply) will create
RoomFor(sender) ==
  Cardinality(DOMAIN messages) + Cardinality({m \in DOMAIN messages : AwaitsReply(m)})
    + (IF sender = "user" THEN 2 ELSE 1) <= MaxMsgs

NoResult == << >>
NewLife(n) ==
  [ pc |-> "files", nFiles |-> n, resp |-> << >>,
    proc |-> "none", timer |-> FALSE, result |-> NoResult, nth |-> 0, bots |-> {} ]

\* the handler up to its first await: parse, then createChatMessage
SubmitHandler(sessionId, message, sender, n) ==
  LET messageData == [ sessionId |-> sessionId, message |-> OrElse(message, Null),
                       sender |-> sender, hasFiles |-> n > 0 ]
      id == messageIdCounter
  IN /\ SchemaAccepts(messageData)
     /\ messageIdCounter' = id + 1
     /\ messages' = Put(messages, id, NewChatMessage(messageData, id, clock))
     /\ life' = Put(life, id, NewLife(n))
     /\ UNCHANGED << clock, files, fileIdCounter, fbVars, cliVars, getVars >>

\* the handler of a request the limiter is not watched for
Submit(sessionId, message, sender, n) ==
  SubmitHandler(sessionId, message, sender, n) /\ UNCHANGED midVars

\* a submit while the run has room for its records
SubmitBegin(sessionId, message, sender, n) ==
  RoomFor(sender) /\ Submit(sessionId, message, sender, n)

\* an answer given in place of a handler's result: the route and the status
NotRefused == [ route |-> "", ip |-> "", status |-> 0 ]

\* the schema throws: the catch answers 500 and nothing was written
SubmitInvalid(sessionId, message, sender, n) ==
  LET messageData == [ sessionId |-> sessionId, message |-> OrElse(message, Null),
                       sender |-> sender, hasFiles |-> n > 0 ]
  IN /\ ~SchemaAccepts(messageData)
     /\ refused' = [ route |-> "/api/chat/message", ip |-> "", status |-> 500 ]
     /\ UNCHANGED << clock, msgVars, fbVars, cliVars, getVars, rateLimitStore, passed >>

\* after createChatMessage: one createChatFile per uploaded file
SubmitFiles(m) ==
  /\ m \in DOMAIN life /\ life[m].pc = "files"
  /\ LET n == life[m].nFiles
         ids == fileIdCounter .. (fileIdCounter + n - 1)
     IN /\ fileIdCounter' = fileIdCounter + n
        /\ files' = [i \in DOMAIN files \cup ids |->
                       IF i \in ids THEN [id |-> i, messageId |-> m]
                                    ELSE files[i]]
  /\ life' = [life EXCEPT ![m].pc = "status"]
  /\ UNCHANGED << clock, messages, messageIdCounter, fbVars, cliVars, getVars, midVars >>

\* what res.json sends: chatMessage is the very object the store holds
SubmitResponse(m) == [ code |-> 200, message |-> messages[m] ]

\* after the files: a user message is marked processing; any other is answered
SubmitMark(m) ==
  /\ m \in DOMAIN life /\ life[m].pc = "status"
  /\ IF messages[m].sender = "user"
       THEN /\ messages' = UpdateMessageStatus(messages, m, "processing", Undefined)
            /\ life' = [life EXCEPT ![m].pc = "respond"]
       ELSE /\ messages' = messages
            /\ life' = [life EXCEPT ![m].pc = "done", ![m].resp = << SubmitResponse(m) >>]
  /\ UNCHANGED << clock, messageIdCounter, files, fileIdCounter, fbVars, cliVars, getVars, midVars >>

\* a handler that queues the job and leaves the answer to the end of the job
SubmitRespondAfterGeneration(m) ==
  /\ m \in DOMAIN life /\ life[m].pc = "respond"
  /\ life' = [life EXCEPT ![m].pc = "scheduled"]
  /\ UNCHANGED << clock, messages, messageIdCounter, files, fileIdCounter, fbVars, cliVars, getVars, midVars >>

\* after the status update: setImmediate queues the job, res.json answers
SubmitRespond(m) ==
  /\ m \in DOMAIN life /\ life[m].pc = "respond"
  /\ life' = [life EXCEPT ![m].pc = "scheduled", ![m].resp = << SubmitResponse(m) >>]
  /\ UNCHANGED << clock, messages, messageIdCounter, files, fileIdCounter, fbVars, cliVars, getVars, midVars >>

\* ------------------------------------------ PythonExecutor.executePythonScript
Success(output) == [success |-> TRUE, output |-> output, error |-> Undefined]
Failure(error) == [success |-> FALSE, output |-> NoOutput, error |-> error]

\* a close handler that takes output it cannot parse for a failure
CloseResultStrict(code, outputData, errorData) ==
  IF code # 0
    THEN Failure(OrElse(errorData, "Python script exited with code 1"))
    ELSE LET parsed == JSONParse(outputData)
         IN IF parsed.ok THEN Success(parsed.value)
                         ELSE Failure("Processing failed")

\* the close handler's verdict on an exit code and the collected output
CloseResult(code, outputData, errorData) ==
  IF code # 0
    THEN Failure(OrElse(errorData, "Python script exited with code 1"))
    ELSE LET parsed == JSONParse(outputData)
         IN IF parsed.ok THEN Success(parsed.value)
                         ELSE Success(JObject({<<"response", outputData>>}))

\* a promise that every resolve() settles anew
ResolveAnew(result, value) == << value >>

\* resolve() of the promise: only the first call settles it
Resolve(result, value) == IF result = NoResult THEN << value >> ELSE result

\* history: the place of a call among the generator calls in order of completion
Nth(m) ==
  IF life[m].result = NoResult
    THEN 1 + Cardinality({k \in DOMAIN life : life[k].result # NoResult})
    ELSE life[m].nth

\* how the job's call starts: the early returns, a throw, or the spawn
StartKinds == {"spawn", "noScript", "badPath", "throw"}

JobStart(m, kind) ==
  /\ m \in DOMAIN life /\ life[m].pc = "scheduled"
  /\ kind = "badPath" => life[m].nFiles > 0
  /\ life' = [life EXCEPT
       ![m].pc = "running",
       ![m].proc = IF kind = "spawn" THEN "alive" ELSE "none",
       ![m].timer = (kind = "spawn"),
       ![m].nth = IF kind = "spawn" THEN 0 ELSE Nth(m),
       ![m].result =
          CASE kind = "spawn" -> NoResult
            [] kind = "noScript" -> << Failure("Python script not found") >>
            [] kind = "badPath" -> << Failure("Invalid file path") >>
            [] kind = "throw" -> << Failure("Processing failed") >>]
  /\ UNCHANGED << clock, messages, messageIdCounter, files, fileIdCounter, fbVars, cliVars, getVars, midVars >>

\* 'close' of the child process
ProcClose(m, code, outputData, errorData) ==
  /\ m \in DOMAIN life /\ life[m].proc \in {"alive", "errored"}
  /\ life[m].proc = "errored" => code # 0
  /\ life' = [life EXCEPT
       ![m].proc = "closed",
       ![m].nth = Nth(m),
       ![m].result = Resolve(@, CloseResult(code, outputData, errorData))]
  /\ UNCHANGED << clock, messages, messageIdCounter, files, fileIdCounter, fbVars, cliVars, getVars, midVars >>

\* 'error' of the child process (it could not be spawned or killed)
ProcError(m) ==
  /\ m \in DOMAIN life /\ life[m].proc = "alive"
  /\ life' = [life EXCEPT
       ![m].proc = "errored",
       ![m].nth = Nth(m),
       ![m].result = Resolve(@, Failure("Failed to execute Python script"))]
  /\ UNCHANGED << clock, messages, messageIdCounter, files, fileIdCounter, fbVars, cliVars, getVars, midVars >>

\* a timer callback that kills the process and forgets to resolve
TimeoutWithoutResolve(m) ==
  /\ m \in DOMAIN life /\ life[m].timer
  /\ life' = [life EXCEPT ![m].timer = FALSE]
  /\ UNCHANGED << clock, messages, messageIdCounter, files, fileIdCounter, fbVars, cliVars, getVars, midVars >>

\* the 30 s timer: it is never cleared, so it fires once for every spawn
Timeout(m) ==
  /\ m \in DOMAIN life /\ life[m].timer
  /\ life' = [life EXCEPT
       ![m].timer = FALSE,
       ![m].nth = Nth(m),
       ![m].result = Resolve(@, Failure(TimeoutError))]
  /\ UNCHANGED << clock, messages, messageIdCounter, files, fileIdCounter, fbVars, cliVars, getVars, midVars >>

\* ------------------------------------------------------ the background job
\* the reply text taken without the fallback
BotResponseWithoutFallback(output) == Field(output, "response")

\* `result.output?.response || 'I have processed your message.'`
BotResponse(output) == OrElse(Field(output, "response"), FallbackText)

\* the error stored as bare text instead of JSON
ErrorPayloadAsText(error) == error

\* the payload stored with a failed message
ErrorPayload(error) == JSONStringify(JObject({<<"error", error>>}))

\* a job that puts a failed message back in the queue to try again
JobSettleWithRetry(m) ==
  /\ m \in DOMAIN life /\ life[m].pc = "running" /\ life[m].result # NoResult
  /\ LET result == life[m].result[1]
     IN IF result.success
          THEN /\ messages' = UpdateMessageStatus(messages, m, "completed",
                                                  JSONStringify(result.output))
               /\ life' = [life EXCEPT ![m].pc = "bot"]
          ELSE /\ messages' = UpdateMessageStatus(messages, m, "pending",
                                                  ErrorPayload(result.error))
               /\ life' = [life EXCEPT ![m].pc = "scheduled"]
  /\ UNCHANGED << clock, messageIdCounter, files, fileIdCounter, fbVars, cliVars, getVars, midVars >>

\* after the await of executePythonScript: the terminal status of the message
JobSettle(m) ==
  /\ m \in DOMAIN life /\ life[m].pc = "running" /\ life[m].result # NoResult
  /\ LET result == life[m].result[1]
     IN IF result.success
          THEN /\ messages' = UpdateMessageStatus(messages, m, "completed",
                                                  JSONStringify(result.output))
               /\ life' = [life EXCEPT ![m].pc = "bot"]
          ELSE /\ messages' = UpdateMessageStatus(messages, m, "failed",
                                                  ErrorPayload(result.error))
               /\ life' = [life EXCEPT ![m].pc = "done"]
  /\ UNCHANGED << clock, messageIdCounter, files, fileIdCounter, fbVars, cliVars, getVars, midVars >>

\* a reply stamped with the time of the message it answers
JobBotBackdated(m) ==
  /\ m \in DOMAIN life /\ life[m].pc = "bot"
  /\ LET result == life[m].result[1]
         id == messageIdCounter
         insert == [ sessionId |-> messages[m].sessionId,
                     message |-> BotResponse(result.output),
                     sender |-> "bot",
                     hasFiles |-> FALSE ]
     IN /\ messageIdCounter' = id + 1
        /\ messages' = Put(messages, id, NewChatMessage(insert, id, messages[m].timestamp))
        /\ life' = Put([life EXCEPT ![m].pc = "done", ![m].bots = @ \cup {id}],
                       id, [NewLife(0) EXCEPT !.pc = "done"])
  /\ UNCHANGED << clock, files, fileIdCounter, fbVars, cliVars, getVars, midVars >>

\* after the await of updateMessageStatus(completed): the bot reply
JobBot(m) ==
  /\ m \in DOMAIN life /\ life[m].pc = "bot"
  /\ LET result == life[m].result[1]
         id == messageIdCounter
         insert == [ sessionId |-> messages[m].sessionId,
                     message |-> BotResponse(result.output),
                     sender |-> "bot",
                     hasFiles |-> FALSE,
                     processingStatus |-> "completed",
                     pythonResponse |-> JSONStringify(result.output) ]
     IN /\ messageIdCounter' = id + 1
        /\ messages' = Put(messages, id, NewChatMessage(insert, id, clock))
        /\ life' = Put([life EXCEPT ![m].pc = "done", ![m].bots = @ \cup {id}],
                       id, [NewLife(0) EXCEPT !.pc = "done"])
  /\ UNCHANGED << clock, files, fileIdCounter, fbVars, cliVars, getVars, midVars >>

\* ------------------------------------- GET /api/chat/message/:messageId/status
\* an answer that carries the status but never the generator output
MessageStatusResponseWithoutOutput(msgs, messageId) ==
  IF messageId \notin DOMAIN msgs
    THEN [messageId |-> messageId, code |-> 404, status |-> "", pythonResponse |-> NoOutput]
    ELSE [ messageId |-> messageId, code |-> 200,
           status |-> msgs[messageId].processingStatus, pythonResponse |-> JNull ]

MessageStatusResponse(msgs, messageId) ==
  IF messageId \notin DOMAIN msgs
    THEN [messageId |-> messageId, code |-> 404, status |-> "", pythonResponse |-> NoOutput]
    ELSE LET stored == msgs[messageId].pythonResponse
             parsed == JSONParse(stored)
         IN IF ~Truthy(stored)
              THEN [ messageId |-> messageId, code |-> 200,
                     status |-> msgs[messageId].processingStatus, pythonResponse |-> JNull ]
            ELSE IF parsed.ok
              THEN [ messageId |-> messageId, code |-> 200,
                     status |-> msgs[messageId].processingStatus,
                     pythonResponse |-> parsed.value ]
            ELSE [messageId |-> messageId, code |-> 500, status |-> "",
                  pythonResponse |-> NoOutput]

\* the handler reads the store and answers; it writes nothing
GetMessageStatus(messageId) ==
  /\ MessageStatusResponse(messages, messageId).code \in {200, 404, 500}
  /\ UNCHANGED vars

\* ------------------------------------------------- POST /api/chat/session
Websites == {Undefined, "https://site.example"}
NanoId == "nanoid-1"               \* what nanoid() returns in a run

IdleOpen ==
  [ pc |-> "idle", sessionId |-> Undefined, website |-> Undefined,
    found |-> FALSE, existingSession |-> Undefined ]

\* the record createChatSession stores under session.sessionId
NewChatSession(insert, id, now) ==
  [ id |-> id, sessionId |-> insert.sessionId, createdAt |-> now,
    website |-> OrElse(insert.website, Null) ]

CreateChatSession(sessionId, website) ==
  /\ sessionIdCounter' = sessionIdCounter + 1
  /\ sessions' = Put(sessions, sessionId,
                     NewChatSession([sessionId |-> sessionId, website |-> website],
                                    sessionIdCounter, clock))

\* room left in the run for one more session record
RoomForSession ==
  sessionIdCounter + Cardinality({r \in DOMAIN open : open[r].pc # "idle"}) <= MaxSessions

\* the handler up to its first await: with a sessionId the lookup, without one the create
OpenHandler(r, sessionId, website) ==
  /\ open[r].pc = "idle" /\ \A q \in DOMAIN open : q < r => open[q].pc # "idle"
  /\ RoomForSession
  /\ IF Truthy(sessionId)
       THEN /\ open' = [open EXCEPT ![r] = [ pc |-> "lookup", sessionId |-> sessionId,
                                             website |-> website,
                                             found |-> sessionId \in DOMAIN sessions,
                                             existingSession |->
                                               IF sessionId \in DOMAIN sessions
                                                 THEN sessions[sessionId]
                                                 ELSE Undefined ]]
            /\ UNCHANGED << sessions, sessionIdCounter >>
       ELSE /\ NanoId \notin DOMAIN sessions
            /\ CreateChatSession(NanoId, website)
            /\ open' = [open EXCEPT ![r] = [IdleOpen EXCEPT !.pc = "created"]]
  /\ UNCHANGED << clock, msgVars, cliVars, getVars, feedback, feedbackIdCounter, fb >>

\* the handler of a request the limiter is not watched for
OpenBegin(r, sessionId, website) ==
  OpenHandler(r, sessionId, website) /\ UNCHANGED midVars

\* what res.json sends for a session that was found
OpenAnswer(r) == open[r].existingSession

\* a handler that creates the session whether or not the lookup found one
OpenLookupAlwaysCreates(r) ==
  /\ open[r].pc = "lookup"
  /\ CreateChatSession(open[r].sessionId, open[r].website)
  /\ open' = [open EXCEPT ![r] = [IdleOpen EXCEPT !.pc = "created"]]
  /\ UNCHANGED << clock, msgVars, cliVars, getVars, midVars, feedback, feedbackIdCounter, fb >>

\* after getChatSession: the existing session is answered, a missing one is created
OpenLookup(r) ==
  /\ open[r].pc = "lookup"
  /\ IF open[r].found
       THEN /\ open' = [open EXCEPT ![r] = IdleOpen]
            /\ UNCHANGED << sessions, sessionIdCounter >>
       ELSE /\ CreateChatSession(open[r].sessionId, open[r].website)
            /\ open' = [open EXCEPT ![r] = [IdleOpen EXCEPT !.pc = "created"]]
  /\ UNCHANGED << clock, msgVars, cliVars, getVars, midVars, feedback, feedbackIdCounter, fb >>

\* after createChatSession: res.json(session)
OpenRespond(r) ==
  /\ open[r].pc = "created"
  /\ open' = [open EXCEPT ![r] = IdleOpen]
  /\ UNCHANGED << clock, msgVars, cliVars, getVars, midVars, sessions, sessionIdCounter, feedback, feedbackIdCounter, fb >>

\* ------------------------------------------------------ POST /api/feedback
\* messageId of the JSON body, as its text; a number n and the text "n" parse alike
FeedbackMessageIds == {"1", "2", "abc", Undefined}
FeedbackVotes == {"true", "false", Undefined}     \* isHelpful: the booleans, or anything else

ParseInt(text) ==
  CASE text = "1" -> 1
    [] text = "2" -> 2
    [] text = "3" -> 3
    [] text = "4" -> 4
    [] text = "5" -> 5
    [] text = "6" -> 6
    [] OTHER -> NaN

\* `a === b` on numbers
StrictEquals(a, b) == a # NaN /\ b # NaN /\ a = b

\* a lookup that never finds the record
GetFeedbackForMessageMissing(store, messageId) == 0

\* a lookup that takes the first record of the store, whatever its message
GetFeedbackForMessageFirst(store, messageId) ==
  IF DOMAIN store = {} THEN 0
  ELSE CHOOSE id \in DOMAIN store : \A other \in DOMAIN store : id <= other

\* getFeedbackForMessage: the id of the first record (in insertion order) of the message, or 0
GetFeedbackForMessage(store, messageId) ==
  LET hits == {id \in DOMAIN store : StrictEquals(store[id].messageId, messageId)}
  IN IF hits = {} THEN 0 ELSE CHOOSE id \in hits : \A other \in hits : id <= other

\* getFeedback: filter on sessionId, then sort on timestamp
GetFeedback(store, sessionId) ==
  LET ids == SortByTimestamp(store,
               InsertionOrder({f \in DOMAIN store : store[f].sessionId = sessionId}))
  IN [i \in 1 .. Len(ids) |-> store[ids[i]]]

NewFeedback(insert, id, now) ==
  [ id |-> id, sessionId |-> insert.sessionId, messageId |-> insert.messageId,
    isHelpful |-> insert.isHelpful, timestamp |-> now ]

UpdateFeedback(store, feedbackId, isHelpful, now) ==
  [store EXCEPT ![feedbackId].isHelpful = isHelpful, ![feedbackId].timestamp = now]

\* a request slot at rest
IdleFeedback ==
  [ pc |-> "idle", sessionId |-> Undefined, messageId |-> Undefined, isHelpful |-> Undefined,
    session |-> FALSE, existing |-> 0, action |-> "none", feedbackId |-> 0 ]

InFlight(r) == fb[r].pc # "idle"

\* requests are interchangeable: a new one takes the lowest slot at rest
FreeSlot(r) == ~InFlight(r) /\ \A q \in DOMAIN fb : q < r => InFlight(q)

\* room left in the run for the record a request may create
RoomForFeedback ==
  Cardinality(DOMAIN feedback) + Cardinality({r \in DOMAIN fb : InFlight(r)}) < MaxFeedback

ValidFeedback(sessionId, messageId, isHelpful) ==
  Truthy(sessionId) /\ Truthy(messageId) /\ isHelpful \in {"true", "false"}

\* the handler up to its first await: validation, then getChatSession
FeedbackHandler(r, sessionId, messageId, isHelpful) ==
  /\ FreeSlot(r)
  /\ RoomForFeedback
  /\ fb' = [fb EXCEPT ![r] =
       IF ValidFeedback(sessionId, messageId, isHelpful)
         THEN [ IdleFeedback EXCEPT !.pc = "session", !.sessionId = sessionId,
                  !.messageId = messageId, !.isHelpful = isHelpful,
                  !.session = sessionId \in DOMAIN sessions ]
         ELSE IdleFeedback]
  /\ UNCHANGED << clock, msgVars, cliVars, getVars, sessions, sessionIdCounter, feedback, feedbackIdCounter, open >>

\* the handler of a request the limiter is not watched for
FeedbackBegin(r, sessionId, messageId, isHelpful) ==
  FeedbackHandler(r, sessionId, messageId, isHelpful) /\ UNCHANGED midVars

\* after getChatSession: 404 without the session, else getFeedbackForMessage
FeedbackSession(r) ==
  /\ fb[r].pc = "session"
  /\ fb' = [fb EXCEPT ![r] =
       IF ~fb[r].session
         THEN IdleFeedback
         ELSE [ @ EXCEPT !.pc = "lookup",
                  !.existing = GetFeedbackForMessage(feedback, ParseInt(fb[r].messageId)) ]]
  /\ UNCHANGED << clock, msgVars, cliVars, getVars, midVars, sessions, sessionIdCounter, feedback, feedbackIdCounter, open >>

\* after getFeedbackForMessage: update the record found, or create one
FeedbackWrite(r) ==
  /\ fb[r].pc = "lookup"
  /\ IF fb[r].existing # 0
       THEN /\ feedback' = UpdateFeedback(feedback, fb[r].existing, fb[r].isHelpful, clock)
            /\ feedbackIdCounter' = feedbackIdCounter
            /\ fb' = [fb EXCEPT ![r].pc = "write", ![r].action = "updated",
                                ![r].feedbackId = fb[r].existing]
       ELSE /\ feedback' = Put(feedback, feedbackIdCounter,
                               NewFeedback([ sessionId |-> fb[r].sessionId,
                                             messageId |-> ParseInt(fb[r].messageId),
                                             isHelpful |-> fb[r].isHelpful ],
                                           feedbackIdCounter, clock))
            /\ feedbackIdCounter' = feedbackIdCounter + 1
            /\ fb' = [fb EXCEPT ![r].pc = "write", ![r].action = "created",
                                ![r].feedbackId = feedbackIdCounter]
  /\ UNCHANGED << clock, msgVars, cliVars, getVars, midVars, sessions, sessionIdCounter, open >>

\* after the write: res.json({ success: true, feedback })
FeedbackRespond(r) ==
  /\ fb[r].pc = "write"
  /\ fb' = [fb EXCEPT ![r] = IdleFeedback]
  /\ UNCHANGED << clock, msgVars, cliVars, getVars, midVars, sessions, sessionIdCounter, feedback, feedbackIdCounter, open >>

\* ------------------------------------------------------------- rateLimit
\* `!userRequests || userRequests.resetTime < now`
WindowOver(store, key, now) ==
  key \notin DOMAIN store \/ store[key].resetTime < now

\* a limiter that counts up to and including one more than the maximum
TooManyAfterOneMore(store, key, now, maxRequests) ==
  ~WindowOver(store, key, now) /\ store[key].count > maxRequests

\* the middleware answers 429: the window runs and the count has reached the maximum
TooMany(store, key, now, maxRequests) ==
  ~WindowOver(store, key, now) /\ store[key].count >= maxRequests

\* the store after a request that passes: a new window, or one more in the count
Counted(store, key, now, windowMs) ==
  IF WindowOver(store, key, now)
    THEN Put(store, key, [count |-> 1, resetTime |-> now + windowMs])
    ELSE [store EXCEPT ![key].count = @ + 1]

\* the middleware of a route for a request of client key.  It answers 429 and
\* the handler is not called, or it counts the request and calls next().
RateLimit(route, key, maxRequests, windowMs) ==
  IF TooMany(rateLimitStore, key, clock, maxRequests)
    THEN /\ refused' = [ route |-> route, ip |-> key, status |-> 429 ]
         /\ UNCHANGED << rateLimitStore, passed >>
    ELSE /\ rateLimitStore' = Counted(rateLimitStore, key, clock, windowMs)
         /\ passed' = [passed EXCEPT ![key] =
                         IF WindowOver(rateLimitStore, key, clock)
                           THEN [ windows |-> @.windows + 1,
                                  of |-> [r \in Routes |-> IF r = route THEN 1 ELSE 0] ]
                           ELSE [ @ EXCEPT !.of[route] = @ + 1 ]]
         /\ refused' = NotRefused

Passes(key, maxRequests) == ~TooMany(rateLimitStore, key, clock, maxRequests)

\* POST /api/feedback: the limiter, then the handler up to its first await
PostFeedback(key, r, sessionId, messageId, isHelpful) ==
  /\ RateLimit("/api/feedback", key, FeedbackMaxRequests, WindowMs)
  /\ IF Passes(key, FeedbackMaxRequests)
       THEN FeedbackHandler(r, sessionId, messageId, isHelpful)
       ELSE UNCHANGED << clock, msgVars, fbVars, cliVars, getVars >>

\* POST /api/chat/session: the limiter, then the handler up to its first await
PostSession(key, r, sessionId, website) ==
  /\ RateLimit("/api/chat/session", key, SessionMaxRequests, WindowMs)
  /\ IF Passes(key, SessionMaxRequests)
       THEN OpenHandler(r, sessionId, website)
       ELSE UNCHANGED << clock, msgVars, fbVars, cliVars, getVars >>

\* POST /api/chat/message: the limiter, then the handler up to its first await
PostMessage(key, sessionId, message, sender, n) ==
  /\ RateLimit("/api/chat/message", key, MessageMaxRequests, WindowMs)
  /\ IF Passes(key, MessageMaxRequests)
       THEN RoomFor(sender) /\ SubmitHandler(sessionId, message, sender, n)
       ELSE UNCHANGED << clock, msgVars, fbVars, cliVars, getVars >>

\* ------------------- GET /api/chat/message/:messageId/status, await by await
\* :messageId of the path, as its text
StatusMessageIds == {"1", "2", "abc"}

NoAnswer == [messageId |-> NaN, code |-> 0, status |-> "", pythonResponse |-> NoOutput]
IdleStatus == [ pc |-> "idle", messageId |-> NaN, found |-> FALSE, answer |-> NoAnswer ]

\* the handler up to its await: parseInt, then the lookup of getMessageWithFiles
StatusBegin(text) ==
  LET messageId == ParseInt(text)
  IN /\ statusReq.pc = "idle"
     /\ statusReq' = [ pc |-> "lookup", messageId |-> messageId,
                       found |-> messageId \in DOMAIN messages, answer |-> NoAnswer ]
     /\ UNCHANGED << clock, msgVars, fbVars, cliVars, midVars >>

\* after the await: 404 without a message, else the fields the message has now
StatusRespond ==
  /\ statusReq.pc = "lookup"
  /\ statusReq' =
       [statusReq EXCEPT
          !.pc = "idle",
          !.answer = IF statusReq.found
                       THEN MessageStatusResponse(messages, statusReq.messageId)
                       ELSE [NoAnswer EXCEPT !.messageId = statusReq.messageId,
                                             !.code = 404]]
  /\ UNCHANGED << clock, msgVars, fbVars, cliVars, midVars >>

\* --------------------------------------------------------------- widget.js
\* the widget as the script leaves it: closed, no session, no polling, input enabled
\* a submitFeedback call: not made ("idle"), or awaiting the answer to its request
IdleVote == [ st |-> "idle", messageId |-> 0, isHelpful |-> Undefined ]

\* Of state.messages the widget keeps the last one (tail), the only one that can
\* carry the voting controls.  Of the page it keeps the messages whose feedback
\* container shows the voting buttons (controls), the choice these highlight,
\* and the containers that show the thanks with the vote they name.
IdleWidget ==
  [ isOpen |-> FALSE, sessionId |-> Null, opening |-> FALSE,
    fastPollingInterval |-> Null, inputDisabled |-> FALSE, hasPending |-> FALSE,
    sent |-> 0, acked |-> 0,
    feedbackGiven |-> FALSE, currentFeedback |-> Null, tail |-> << >>,
    controls |-> {}, highlight |-> Null, thanks |-> {},
    voting |-> [r \in 1 .. MaxFbReqs |-> IdleVote] ]

\* `state.messages.slice(-1)`, of each message its id and sender
LastOf(list) ==
  IF list = << >> THEN << >>
  ELSE << [id |-> list[Len(list)].id, sender |-> list[Len(list)].sender] >>

\* the messages renderMessages gives voting buttons: a bot message that is the
\* last of the list, unless feedback was given
RenderControls(list, feedbackGiven) ==
  { list[i].id : i \in { j \in 1 .. Len(list) :
                          /\ list[j].sender = "bot"
                          /\ ~feedbackGiven /\ j = Len(list) } }

\* renderMessages: the message nodes are made anew from state.messages
RenderMessages(w) ==
  LET shown == RenderControls(w.tail, w.feedbackGiven)
  IN [w EXCEPT !.controls = shown,
               !.highlight = IF shown = {} THEN Null ELSE w.currentFeedback,
               !.thanks = {}]

\* a loadMessages call: not made, or its fetch at some stage
IdlePoll == [ st |-> "idle", ids |-> << >>, list |-> << >> ]

Website == "https://site.example"      \* getConfig().website
Interval == "interval"                 \* the id setInterval returns

PollInFlight(p) == polls[p].st # "idle"

\* loadMessages up to its fetch: nothing without a session, else one more GET
LoadMessages(sessionId) ==
  IF sessionId = Null
    THEN polls' = polls
    ELSE \E p \in DOMAIN polls :
           /\ ~PollInFlight(p) /\ \A q \in DOMAIN polls : q < p => PollInFlight(q)
           /\ polls' = [polls EXCEPT ![p].st = "sent"]

\* click on the trigger button: toggles the widget; on opening it makes the
\* session if there is none (awaited) and loads the messages
TriggerClick ==
  /\ UNCHANGED srvVars
  /\ LET isOpen == ~widget.isOpen
     IN IF ~isOpen
       THEN /\ widget' = [widget EXCEPT !.isOpen = FALSE]
            /\ polls' = polls
     ELSE IF widget.sessionId = Null
       THEN /\ ~widget.opening
            /\ widget' = [widget EXCEPT !.isOpen = TRUE, !.opening = TRUE]
            /\ polls' = polls
     ELSE /\ widget' = [widget EXCEPT !.isOpen = TRUE]
          /\ LoadMessages(widget.sessionId)

\* createSession after its fetch: the session id is kept; the click handler goes
\* on to loadMessages
SessionCreated ==
  /\ widget.opening /\ NanoId \in DOMAIN sessions /\ open[1].pc = "idle"
  /\ widget' = [widget EXCEPT !.opening = FALSE, !.sessionId = sessions[NanoId].sessionId]
  /\ LoadMessages(sessions[NanoId].sessionId)
  /\ UNCHANGED srvVars

\* createSession when its fetch fails: null is returned and loadMessages returns
\* at once for want of a session
SessionFailed ==
  /\ widget.opening /\ NanoId \notin DOMAIN sessions /\ open[1].pc = "idle"
  /\ widget' = [widget EXCEPT !.opening = FALSE]
  /\ polls' = polls
  /\ UNCHANGED srvVars

\* click on the close button
CloseClick ==
  /\ widget.isOpen
  /\ widget' = [widget EXCEPT !.isOpen = FALSE, !.fastPollingInterval = Null]
  /\ polls' = polls
  /\ UNCHANGED srvVars

\* submits of the widget the server has not received yet
PostsUnderWay ==
  widget.sent - Cardinality({m \in DOMAIN messages : messages[m].sender = "user"})

\* answers of the server to submits the widget has not handled yet
AnswersUnderWay ==
  Cardinality({m \in DOMAIN life : messages[m].sender = "user" /\ life[m].resp # << >>})
    - widget.acked

\* handleSend with a text: it returns when the input is disabled; else
\* sendMessage, which returns without a session and else disables the input and
\* makes its fetch
HandleSend ==
  /\ widget.isOpen
  /\ widget.sent < MaxMsgs
  /\ IF widget.inputDisabled \/ widget.sessionId = Null
       THEN widget' = widget
       ELSE widget' = [widget EXCEPT !.inputDisabled = TRUE, !.sent = @ + 1,
                                   !.feedbackGiven = FALSE, !.currentFeedback = Null]
  /\ polls' = polls
  /\ UNCHANGED srvVars

\* a sendMessage that enables the input again as soon as the server has answered
SendAnsweredEnabling ==
  /\ AnswersUnderWay > 0
  /\ widget' = [RenderMessages([widget EXCEPT !.tail = << [id |-> 0, sender |-> "user"] >>])
                  EXCEPT !.acked = @ + 1, !.hasPending = TRUE,
                         !.fastPollingInterval = Interval,
                         !.inputDisabled = FALSE]
  /\ polls' = polls
  /\ UNCHANGED srvVars

\* sendMessage after an ok answer: the message joins state.messages as
\* processing and startFastPolling replaces the interval by a new one
SendAnswered ==
  /\ AnswersUnderWay > 0
  /\ LET hasPendingMessages == TRUE
         newMessage == [id |-> 0, sender |-> "user"]
     IN widget' = [RenderMessages([widget EXCEPT !.tail = << newMessage >>])
                     EXCEPT !.acked = @ + 1,
                            !.hasPending = hasPendingMessages,
                            !.fastPollingInterval =
                               IF hasPendingMessages THEN Interval ELSE @]
  /\ polls' = polls
  /\ UNCHANGED srvVars

\* sendMessage when its fetch fails or is answered with an error status, the
\* message not stored: the input is enabled again
SendFailed ==
  /\ PostsUnderWay > 0
  /\ widget' = [widget EXCEPT !.sent = @ - 1, !.inputDisabled = FALSE]
  /\ polls' = polls
  /\ UNCHANGED srvVars

\* a tick of the 500 ms interval: loadMessages, whatever became of the last one
IntervalTick ==
  /\ widget.fastPollingInterval # Null
  /\ LoadMessages(widget.sessionId)
  /\ widget' = widget
  /\ UNCHANGED srvVars

\* GET /api/chat/messages/:sessionId up to its first await: getChatMessages
PollList(p) ==
  /\ polls[p].st = "sent"
  /\ LET list == GetChatMessages(messages, widget.sessionId)
     IN polls' = [polls EXCEPT ![p].st = "listed",
                               ![p].ids = [i \in 1 .. Len(list) |-> list[i].id]]
  /\ widget' = widget
  /\ UNCHANGED srvVars

\* the rest of the GET handler: each message is copied as it is now and sent
PollAnswer(p) ==
  /\ polls[p].st = "listed"
  /\ polls' = [polls EXCEPT ![p].st = "answered",
                            ![p].ids = << >>,
                            ![p].list = [i \in 1 .. Len(polls[p].ids) |->
                                           messages[polls[p].ids[i]]]]
  /\ widget' = widget
  /\ UNCHANGED srvVars

\* `list.filter(m => m.sender === sender).slice(-1)[0]`, as a sequence of 0 or 1
Latest(list, sender) ==
  LET own == SelectSeq(list, LAMBDA m : m.sender = sender)
  IN IF own = << >> THEN << >> ELSE << own[Len(own)] >>

\* stop condition (a): a bot message later than the latest user message
StopA(list) ==
  LET latestUserMsg == Latest(list, "user")
      latestBotMsg == Latest(list, "bot")
  IN /\ latestUserMsg # << >> /\ latestBotMsg # << >>
     /\ latestBotMsg[1].timestamp > latestUserMsg[1].timestamp

HasPendingMessages(list) ==
  \E i \in 1 .. Len(list) : list[i].processingStatus \in {"processing", "pending"}

\* loadMessages after its fetch: the two stop conditions, then state.messages
PollDone(p) ==
  /\ polls[p].st = "answered"
  /\ LET messagesGot == polls[p].list
         afterA == IF StopA(messagesGot)
                     THEN [widget EXCEPT !.fastPollingInterval = Null,
                                         !.inputDisabled = FALSE]
                     ELSE widget
         afterB == IF ~HasPendingMessages(messagesGot) /\ afterA.fastPollingInterval # Null
                     THEN [afterA EXCEPT !.fastPollingInterval = Null,
                                         !.inputDisabled = FALSE]
                     ELSE afterA
     IN widget' = RenderMessages([afterB EXCEPT
                                    !.hasPending = HasPendingMessages(messagesGot),
                                    !.tail = LastOf(messagesGot)])
  /\ polls' = [polls EXCEPT ![p] = IdlePoll]
  /\ UNCHANGED srvVars

\* ------------------------------------------- the widget's feedback controls
\* `${msg.id}` of the template that writes a button's onclick
TemplateId(id) ==
  CASE id = 1 -> "1"
    [] id = 2 -> "2"
    [] id = 3 -> "3"
    [] id = 4 -> "4"
    [] id = 5 -> "5"
    [] id = 6 -> "6"
    [] OTHER -> "NaN"

\* the messages whose feedback container shows the thanks
Thanked == { t[1] : t \in widget.thanks }

\* a click on a voting button: submitFeedback up to its request
ClickVote(r, messageId, isHelpful) ==
  /\ widget.isOpen
  /\ messageId \in widget.controls
  /\ widget.voting[r].st = "idle" /\ ~InFlight(r)
  /\ widget' = [widget EXCEPT !.voting[r] =
                  [st |-> "sent", messageId |-> messageId, isHelpful |-> isHelpful]]
  /\ polls' = polls
  /\ UNCHANGED srvVars

\* an answer with success that leaves the page as it was
VoteAnsweredKeeping(r) ==
  /\ widget.voting[r].st = "sent" /\ fb[r].pc = "write"
  /\ widget' = [widget EXCEPT !.feedbackGiven = TRUE,
                              !.currentFeedback = widget.voting[r].isHelpful,
                              !.voting[r] = IdleVote]
  /\ polls' = polls
  /\ UNCHANGED srvVars

\* submitFeedback after an answer with success: the vote is remembered, and the
\* feedback container of the message, if the page has one, shows the thanks
VoteAnswered(r) ==
  /\ widget.voting[r].st = "sent" /\ fb[r].pc = "write"
  /\ LET messageId == widget.voting[r].messageId
         isHelpful == widget.voting[r].isHelpful
         feedbackContainer == messageId \in widget.controls \cup Thanked
         controls == IF feedbackContainer THEN widget.controls \ {messageId}
                                          ELSE widget.controls
     IN widget' = [widget EXCEPT
          !.feedbackGiven = TRUE,
          !.currentFeedback = isHelpful,
          !.controls = controls,
          !.highlight = IF controls = {} THEN Null ELSE @,
          !.thanks = IF feedbackContainer
                       THEN { t \in @ : t[1] # messageId } \cup { << messageId, isHelpful >> }
                       ELSE @,
          !.voting[r] = IdleVote]
  /\ polls' = polls
  /\ UNCHANGED srvVars

\* submitFeedback when its request fails or is answered with an error: the
\* error is logged and nothing else is done
VoteFailed(r) ==
  /\ widget.voting[r].st = "sent" /\ ~InFlight(r)
  /\ widget' = [widget EXCEPT !.voting[r] = IdleVote]
  /\ polls' = polls
  /\ UNCHANGED srvVars

\* a "Change feedback" that forgets the vote and renders nothing
ChangeFeedbackHidden(messageId) ==
  /\ widget.isOpen
  /\ messageId \in Thanked
  /\ widget' = [widget EXCEPT !.feedbackGiven = FALSE, !.currentFeedback = Null,
                              !.thanks = {}]
  /\ polls' = polls
  /\ UNCHANGED srvVars

\* a click on "Change feedback" in the thanks of a message
ChangeFeedback(messageId) ==
  /\ widget.isOpen
  /\ messageId \in Thanked
  /\ widget' = RenderMessages([widget EXCEPT !.feedbackGiven = FALSE,
                                            !.currentFeedback = Null])
  /\ polls' = polls
  /\ UNCHANGED srvVars

\* toggleExpanded: the window changes its size and the messages are rendered
ToggleExpanded ==
  /\ widget.isOpen
  /\ widget' = RenderMessages(widget)
  /\ polls' = polls
  /\ UNCHANGED srvVars

\* ----------------------------------------------------------------- clock
Tick ==
  /\ clock < MaxClock
  /\ clock' = clock + 1
  /\ UNCHANGED << msgVars, fbVars, cliVars, getVars, midVars >>

\* ------------------------------------------------------------------ runs
Init ==
  /\ clock = 0
  /\ sessions = << >> /\ sessionIdCounter = 1
  /\ messages = << >> /\ messageIdCounter = 1
  /\ files = << >> /\ fileIdCounter = 1
  /\ feedback = << >> /\ feedbackIdCounter = 1
  /\ life = << >>
  /\ open = [r \in 1 .. MaxOpenReqs |-> IdleOpen]
  /\ fb = [r \in 1 .. MaxFbReqs |-> IdleFeedback]
  /\ statusReq = IdleStatus
  /\ rateLimitStore = << >>
  /\ refused = NotRefused
  /\ passed = [key \in ClientIps |-> [windows |-> 0, of |-> [route \in Routes |-> 0]]]
  /\ widget = IdleWidget
  /\ polls = [p \in 1 .. MaxPolls |-> IdlePoll]

MessageIds == 1 .. MaxMsgs

NextMsg ==
  \/ \E s \in SessionIds \cup {Undefined}, b \in SubmitBodies, snd \in SubmitSenders,
        n \in 0 .. MaxFiles : SubmitBegin(s, b, snd, n)
  \/ \E s \in SessionIds \cup {Undefined}, b \in SubmitBodies, snd \in SubmitSenders,
        n \in 0 .. MaxFiles : SubmitInvalid(s, b, snd, n)
  \/ \E m \in MessageIds : SubmitFiles(m)
  \/ \E m \in MessageIds : SubmitMark(m)
  \/ \E m \in MessageIds : SubmitRespond(m)
  \/ \E m \in MessageIds, k \in StartKinds : JobStart(m, k)
  \/ \E m \in MessageIds, exit \in ProcessExits :
        ProcClose(m, exit[1], exit[2], exit[3])
  \/ \E m \in MessageIds : ProcError(m)
  \/ \E m \in MessageIds : Timeout(m)
  \/ \E m \in MessageIds : JobSettle(m)
  \/ \E m \in MessageIds : JobBot(m)
  \/ \E id \in 1 .. MaxMsgs + 1 : GetMessageStatus(id)

NextFb ==
  \/ \E s \in SessionIds : OpenBegin(1, s, Undefined)
  \/ OpenLookup(1)
  \/ OpenRespond(1)
  \/ \E r \in 1 .. MaxFbReqs, s \in SessionIds \cup {Undefined},
        m \in FeedbackMessageIds, h \in FeedbackVotes : FeedbackBegin(r, s, m, h)
  \/ \E r \in 1 .. MaxFbReqs : FeedbackSession(r)
  \/ \E r \in 1 .. MaxFbReqs : FeedbackWrite(r)
  \/ \E r \in 1 .. MaxFbReqs : FeedbackRespond(r)

\* the message lifecycle: submits, generation jobs and status reads
SpecMsg == Init /\ [][NextMsg]_vars

\* the feedback subsystem: session opens and feedback requests
SpecFb == Init /\ [][NextFb]_vars

\* one feedback request at a time: each begins after the one before was answered
NextFbSeq ==
  \/ \E s \in SessionIds : OpenBegin(1, s, Undefined)
  \/ OpenLookup(1)
  \/ OpenRespond(1)
  \/ \E s \in SessionIds \cup {Undefined}, m \in FeedbackMessageIds, h \in FeedbackVotes :
        FeedbackBegin(1, s, m, h)
  \/ FeedbackSession(1)
  \/ FeedbackWrite(1)
  \/ FeedbackRespond(1)

SpecFbSeq == Init /\ [][NextFbSeq]_vars

\* the message lifecycle with the clock running, so that timestamps differ
NextList == NextMsg \/ Tick

SpecList == Init /\ [][NextList]_vars

\* Several user messages in generation at once.  The store's promises are settled
\* when they are awaited, so a continuation of a handler or of a job runs in the
\* microtask drain of the turn that made it ready: the event loop takes up the
\* next request, immediate, process event or timer only when none is left.
PairIds == 1 .. 2 * MaxMsgs

RoomForPair ==
  Cardinality(DOMAIN messages) + Cardinality({m \in DOMAIN messages : AwaitsReply(m)})
    + 2 <= 2 * MaxMsgs

Continuing(m) ==
  \/ life[m].pc \in {"files", "status", "respond", "bot"}
  \/ life[m].pc = "running" /\ life[m].result # NoResult

EventLoopIdle == \A m \in DOMAIN life : ~Continuing(m)

PairExits == { <<0, "{\"response\":\"hi there\"}", "">>, <<1, "", "Traceback">> }

NextPair ==
  \/ EventLoopIdle /\ RoomForPair /\ \E s \in SessionIds : Submit(s, "hello", "user", 0)
  \/ \E m \in PairIds : SubmitFiles(m)
  \/ \E m \in PairIds : SubmitMark(m)
  \/ \E m \in PairIds : SubmitRespond(m)
  \/ EventLoopIdle /\ \E m \in PairIds : JobStart(m, "spawn")
  \/ EventLoopIdle /\ \E m \in PairIds, exit \in PairExits :
                         ProcClose(m, exit[1], exit[2], exit[3])
  \/ EventLoopIdle /\ \E m \in PairIds : Timeout(m)
  \/ \E m \in PairIds : JobSettle(m)
  \/ \E m \in PairIds : JobBot(m)
  \/ Tick

SpecPair == Init /\ [][NextPair]_vars

\* submits and jobs, with status requests read between their steps
NextStatus ==
  \/ NextMsg
  \/ \E text \in StatusMessageIds : StatusBegin(text)
  \/ StatusRespond

SpecStatus == Init /\ [][NextStatus]_vars

\* The three limited routes with their limiter, for two clients, and the clock.
\* The server takes up a request or process event only when no continuation of
\* a handler or job is left to run.
RateIds == 1 .. MaxMsgs

RateIdle ==
  /\ EventLoopIdle
  /\ open[1].pc = "idle"
  /\ \A r \in DOMAIN fb : ~InFlight(r)

NextRate ==
  \/ RateIdle /\ \E key \in ClientIps, h \in {"true", "false"} :
                    PostFeedback(key, 1, "s1", "2", h)
  \/ FeedbackSession(1)
  \/ FeedbackWrite(1)
  \/ FeedbackRespond(1)
  \/ RateIdle /\ \E key \in ClientIps : PostSession(key, 1, "s1", Undefined)
  \/ OpenLookup(1)
  \/ OpenRespond(1)
  \/ RateIdle /\ \E key \in ClientIps : PostMessage(key, "s1", "hello", "user", 0)
  \/ \E m \in RateIds : SubmitFiles(m)
  \/ \E m \in RateIds : SubmitMark(m)
  \/ \E m \in RateIds : SubmitRespond(m)
  \/ RateIdle /\ \E m \in RateIds : JobStart(m, "spawn")
  \/ RateIdle /\ \E m \in RateIds : ProcClose(m, 0, "{\"response\":\"hi there\"}", "")
  \/ \E m \in RateIds : JobSettle(m)
  \/ \E m \in RateIds : JobBot(m)
  \/ Tick

SpecRate == Init /\ [][NextRate]_vars

\* session opens, several at once, with and without a sessionId
NextOpen ==
  \/ \E r \in 1 .. MaxOpenReqs, s \in SessionIds \cup {NanoId, Undefined}, w \in Websites :
        OpenBegin(r, s, w)
  \/ \E r \in 1 .. MaxOpenReqs : OpenLookup(r)
  \/ \E r \in 1 .. MaxOpenReqs : OpenRespond(r)
  \/ Tick

SpecOpen == Init /\ [][NextOpen]_vars

\* a server that takes up a request or event in the middle of a continuation
ServerNeverBusy == TRUE

\* The widget of one page and the server behind it: the widget's requests reach
\* the server some time after they were made, and the server takes up a request
\* or process event only when no continuation is left to run.  The generator
\* exits before its 30 s are over.
ServerIdle ==
  /\ EventLoopIdle
  /\ open[1].pc = "idle"
  /\ \A p \in DOMAIN polls : polls[p].st # "listed"

NextWidget ==
  \/ TriggerClick
  \/ SessionCreated
  \/ SessionFailed
  \/ CloseClick
  \/ HandleSend
  \/ SendAnswered
  \/ SendFailed
  \/ IntervalTick
  \/ \E p \in DOMAIN polls : PollDone(p)
  \/ ServerIdle /\ widget.opening /\ OpenBegin(1, Null, Website)
  \/ OpenRespond(1)
  \/ ServerIdle /\ PostsUnderWay > 0 /\ Submit(widget.sessionId, "hello", "user", 0)
  \/ \E m \in PairIds : SubmitFiles(m)
  \/ \E m \in PairIds : SubmitMark(m)
  \/ \E m \in PairIds : SubmitRespond(m)
  \/ ServerIdle /\ \E m \in PairIds : JobStart(m, "spawn")
  \/ ServerIdle /\ \E m \in PairIds, exit \in PairExits :
                      ProcClose(m, exit[1], exit[2], exit[3])
  \/ \E m \in PairIds : JobSettle(m)
  \/ \E m \in PairIds : JobBot(m)
  \/ ServerIdle /\ \E p \in DOMAIN polls : PollList(p)
  \/ \E p \in DOMAIN polls : PollAnswer(p)
  \/ Tick

SpecWidget == Init /\ [][NextWidget]_vars

\* The widget's feedback controls and the server behind them: the chat is
\* opened and stays open, each message is answered by the generator, each poll
\* is answered before the interval fires again, and the votes are the ones the
\* page's buttons send.
VoteIds == 1 .. 2 * MaxMsgs
VoteExit == << 0, "{\"response\":\"hi there\"}", "" >>

NextVote ==
  \/ ~widget.isOpen /\ TriggerClick
  \/ SessionCreated
  \/ HandleSend
  \/ SendAnswered
  \/ (\A p \in DOMAIN polls : ~PollInFlight(p)) /\ IntervalTick
  \/ \E p \in DOMAIN polls : PollDone(p)
  \/ ToggleExpanded
  \/ \E r \in 1 .. MaxFbReqs, m \in VoteIds, h \in {"true", "false"} : ClickVote(r, m, h)
  \/ \E r \in 1 .. MaxFbReqs : VoteAnswered(r)
  \/ \E r \in 1 .. MaxFbReqs : VoteFailed(r)
  \/ \E m \in VoteIds : ChangeFeedback(m)
  \/ ServerIdle /\ widget.opening /\ OpenBegin(1, Null, Website)
  \/ OpenRespond(1)
  \/ ServerIdle /\ PostsUnderWay > 0 /\ Submit(widget.sessionId, "hello", "user", 0)
  \/ \E m \in VoteIds : SubmitFiles(m)
  \/ \E m \in VoteIds : SubmitMark(m)
  \/ \E m \in VoteIds : SubmitRespond(m)
  \/ ServerIdle /\ \E m \in VoteIds : JobStart(m, "spawn")
  \/ ServerIdle /\ \E m \in VoteIds : ProcClose(m, VoteExit[1], VoteExit[2], VoteExit[3])
  \/ \E m \in VoteIds : JobSettle(m)
  \/ \E m \in VoteIds : JobBot(m)
  \/ ServerIdle /\ \E p \in DOMAIN polls : PollList(p)
  \/ \E p \in DOMAIN polls : PollAnswer(p)
  \/ \E r \in 1 .. MaxFbReqs :
        /\ widget.voting[r].st = "sent"
        /\ FeedbackBegin(r, widget.sessionId, TemplateId(widget.voting[r].messageId),
                         widget.voting[r].isHelpful)
  \/ \E r \in 1 .. MaxFbReqs : FeedbackSession(r)
  \/ \E r \in 1 .. MaxFbReqs : FeedbackWrite(r)
  \/ \E r \in 1 .. MaxFbReqs : widget.voting[r].st = "idle" /\ FeedbackRespond(r)

SpecVote == Init /\ [][NextVote]_vars

\* One message of the widget, sent once, with the widget closed and opened at
\* will.  The browser delivers every answer and fires the interval while it is
\* set, each poll answered before the next tick; the server runs every handler
\* and job to its end and the generator exits.  Clicks are under no obligation.
NoPollInFlight == \A p \in DOMAIN polls : ~PollInFlight(p)

ReopenSystem ==
  \/ SessionCreated
  \/ SendAnswered
  \/ NoPollInFlight /\ IntervalTick
  \/ \E p \in DOMAIN polls : PollDone(p)
  \/ ServerIdle /\ widget.opening /\ OpenBegin(1, Null, Website)
  \/ OpenRespond(1)
  \/ ServerIdle /\ PostsUnderWay > 0 /\ Submit(widget.sessionId, "hello", "user", 0)
  \/ \E m \in PairIds : SubmitFiles(m)
  \/ \E m \in PairIds : SubmitMark(m)
  \/ \E m \in PairIds : SubmitRespond(m)
  \/ ServerIdle /\ \E m \in PairIds : JobStart(m, "spawn")
  \/ ServerIdle /\ \E m \in PairIds, exit \in PairExits :
                      ProcClose(m, exit[1], exit[2], exit[3])
  \/ \E m \in PairIds : JobSettle(m)
  \/ \E m \in PairIds : JobBot(m)
  \/ ServerIdle /\ \E p \in DOMAIN polls : PollList(p)
  \/ \E p \in DOMAIN polls : PollAnswer(p)

NextReopen ==
  \/ TriggerClick
  \/ CloseClick
  \/ widget.sent = 0 /\ widget.acked = 0 /\ HandleSend
  \/ Tick
  \/ ReopenSystem

FairReopen ==
  /\ Init /\ [][NextReopen]_vars
  /\ WF_vars(SessionCreated)
  /\ WF_vars(SendAnswered)
  /\ WF_vars(NoPollInFlight /\ IntervalTick)
  /\ WF_vars(ServerIdle /\ widget.opening /\ OpenBegin(1, Null, Website))
  /\ WF_vars(OpenRespond(1))
  /\ WF_vars(ServerIdle /\ PostsUnderWay > 0 /\ Submit(widget.sessionId, "hello", "user", 0))
  /\ \A p \in 1 .. MaxPolls :
        /\ WF_vars(PollDone(p))
        /\ WF_vars(ServerIdle /\ PollList(p))
        /\ WF_vars(PollAnswer(p))
  /\ \A m \in PairIds :
        /\ WF_vars(SubmitFiles(m))
        /\ WF_vars(SubmitMark(m))
        /\ WF_vars(SubmitRespond(m))
        /\ WF_vars(ServerIdle /\ JobStart(m, "spawn"))
        /\ WF_vars(ServerIdle /\ \E exit \in PairExits : ProcClose(m, exit[1], exit[2], exit[3]))
        /\ WF_vars(JobSettle(m))
        /\ WF_vars(JobBot(m))

\* the whole server, with the clock running
Next == NextMsg \/ NextFb \/ Tick

Spec == Init /\ [][Next]_vars

\* The event loop runs every queued continuation, immediate and timer; the child
\* process itself is under no obligation to exit or to fail.
FairMsg ==
  /\ SpecMsg
  /\ \A m \in MessageIds :
       /\ WF_vars(SubmitFiles(m))
       /\ WF_vars(SubmitMark(m))
       /\ WF_vars(SubmitRespond(m))
       /\ WF_vars(\E k \in StartKinds : JobStart(m, k))
       /\ WF_vars(Timeout(m))
       /\ WF_vars(JobSettle(m))
       /\ WF_vars(JobBot(m))

\* ------------------------------------------------------------ properties
FeedbackRows(store, messageId) ==
  {id \in DOMAIN store : StrictEquals(store[id].messageId, messageId)}

UserMessage(m) == m \in DOMAIN messages /\ messages[m].sender = "user"
Terminal(m) ==
  m \in DOMAIN messages /\ messages[m].processingStatus \in {"completed", "failed"}
Settled(m) == m \in DOMAIN life /\ life[m].pc = "done" /\ life[m].result # NoResult

\* C1: in every reachable state the feedback store holds at most one record for
\* each messageId.
C1_OneFeedbackPerMessage ==
  \A a, b \in DOMAIN feedback :
    StrictEquals(feedback[a].messageId, feedback[b].messageId) => a = b

\* C2: of the feedback requests racing on one messageId no two execute as create:
\* a request creates a record only while the store holds none for that messageId.
C2_NoTwoCreates ==
  [][ \A r \in DOMAIN fb :
        ( /\ fb[r].pc = "lookup" /\ fb'[r].pc = "write"
          /\ fb'[r].action = "created"
          /\ ParseInt(fb[r].messageId) # NaN )
        => FeedbackRows(feedback, ParseInt(fb[r].messageId)) = {} ]_vars

\* C3: a vote for a messageId that already has a record (the second of two
\* submissions, same boolean or not) leaves exactly that one record, with its id
\* unchanged and isHelpful equal to the boolean of the latest call.
C3_SecondVoteUpdatesInPlace ==
  [][ \A r \in DOMAIN fb :
        LET mid == ParseInt(fb[r].messageId)
            old == FeedbackRows(feedback, mid)
        IN ( /\ fb[r].pc = "lookup" /\ fb'[r].pc = "write"
             /\ old # {} )
           => /\ Cardinality(old) = 1
              /\ FeedbackRows(feedback', mid) = old
              /\ DOMAIN feedback' = DOMAIN feedback
              /\ \A id \in old :
                   /\ feedback'[id].id = id
                   /\ feedback'[id].messageId = mid
                   /\ feedback'[id].isHelpful = fb[r].isHelpful ]_vars

\* C3 witness: a second vote, cast from another session than the first, has
\* just been written as an update of the existing record.
C3_Witness ==
  \E r \in DOMAIN fb :
    /\ fb[r].pc = "write" /\ fb[r].action = "updated"
    /\ feedback[fb[r].feedbackId].sessionId # fb[r].sessionId
    /\ feedback[fb[r].feedbackId].isHelpful = fb[r].isHelpful

\* C4: a message's processingStatus only moves pending -> processing ->
\* completed | failed, never backward.
C4_StatusOnlyForward ==
  [][ \A m \in DOMAIN messages :
        messages'[m].processingStatus # messages[m].processingStatus
        => << messages[m].processingStatus, messages'[m].processingStatus >> \in
             { <<"pending", "processing">>, <<"processing", "completed">>,
               <<"processing", "failed">> } ]_vars

\* C4 witness: a completed user message whose process has closed and whose
\* timeout timer has fired afterwards.
C4_Witness ==
  \E m \in DOMAIN messages :
    /\ UserMessage(m) /\ messages[m].processingStatus = "completed"
    /\ life[m].pc = "done" /\ life[m].proc = "closed" /\ ~life[m].timer

\* C5: every user message accepted by submit eventually reaches completed or
\* failed, whatever the generator does.
C5_EveryUserMessageTerminates ==
  \A m \in MessageIds : UserMessage(m) ~> Terminal(m)

\* C5 witness: a user message failed by the timeout while its process still runs.
C5_Witness ==
  \E m \in DOMAIN messages :
    /\ UserMessage(m) /\ messages[m].processingStatus = "failed"
    /\ life[m].proc = "alive"
    /\ messages[m].pythonResponse = ErrorPayload(TimeoutError)

\* C6: the message carried in the answer to a successful submit of a user
\* message has sender user and processingStatus pending.
C6_SubmitAnswersPending ==
  \A m \in DOMAIN life :
    (life[m].resp # << >> /\ life[m].resp[1].message.sender = "user")
    => life[m].resp[1].message.processingStatus = "pending"

\* C7: a submit with neither a text body nor an attachment is rejected before any
\* store write: no message record without body and without attachments is ever
\* stored.
C7_NoEmptyMessageStored ==
  \A m \in DOMAIN messages : messages[m].message # Null \/ messages[m].hasFiles

\* C8: when the generator succeeds, the user message is completed with the
\* generator output stored, and the job has added exactly one message, of sender
\* bot, in the same session, whose body is the response text, or the fallback
\* text when the response text is absent or empty.
C8_SuccessStoresReply ==
  \A m \in DOMAIN life :
    (Settled(m) /\ life[m].result[1].success)
    => LET output == life[m].result[1].output
           text == Field(output, "response")
       IN /\ messages[m].processingStatus = "completed"
          /\ messages[m].pythonResponse = JSONStringify(output)
          /\ Cardinality(life[m].bots) = 1
          /\ \A b \in life[m].bots :
               /\ b \in DOMAIN messages
               /\ messages[b].sender = "bot"
               /\ messages[b].sessionId = messages[m].sessionId
               /\ messages[b].message =
                    IF text \in {Undefined, ""} THEN FallbackText ELSE text

\* C8 witness: a job has finished with a reply carrying the generator's text.
C8_Witness ==
  \E m \in DOMAIN life :
    /\ Settled(m) /\ life[m].result[1].success
    /\ \E b \in life[m].bots : messages[b].message = "hi there"

\* C9: when the generator fails or times out, the user message ends failed with
\* an error payload stored, the job adds no bot message, and the status read
\* answers failed together with that payload.
C9_FailureStoresError ==
  \A m \in DOMAIN life :
    (Settled(m) /\ ~life[m].result[1].success)
    => LET error == life[m].result[1].error
       IN /\ messages[m].processingStatus = "failed"
          /\ messages[m].pythonResponse = "{\"error\":\"" \o error \o "\"}"
          /\ life[m].bots = {}
          /\ MessageStatusResponse(messages, m) =
               [ messageId |-> m, code |-> 200, status |-> "failed",
                 pythonResponse |-> JObject({<<"error", error>>}) ]

\* C9 witness: a job has finished after the timeout settled its call.
C9_Witness ==
  \E m \in DOMAIN life :
    /\ Settled(m) /\ life[m].result[1] = Failure(TimeoutError)
    /\ messages[m].processingStatus = "failed"

\* C10: every bot message a job creates has processingStatus completed from its
\* creation on.
C10_BotRepliesCompleted ==
  \A m \in DOMAIN life : \A b \in life[m].bots :
    messages[b].processingStatus = "completed"

\* C12: every list call returns exactly the session's messages, in non-decreasing
\* timestamp order with equal timestamps in id order, and a second call with no
\* write in between returns the same sequence.
C12_ListOrdered ==
  /\ [] \A s \in SessionIds :
          LET list == GetChatMessages(messages, s)
          IN /\ { list[i].id : i \in 1 .. Len(list) } =
                  { m \in DOMAIN messages : messages[m].sessionId = s }
             /\ \A i, j \in 1 .. Len(list) :
                  i < j => \/ list[i].timestamp < list[j].timestamp
                           \/ /\ list[i].timestamp = list[j].timestamp
                              /\ list[i].id < list[j].id
  /\ [][ messages' = messages =>
           \A s \in SessionIds :
             GetChatMessages(messages', s) = GetChatMessages(messages, s) ]_vars

\* C12 witness: a session lists a user message and, after it, the bot reply
\* created at a later clock value.
C12_Witness ==
  \E s \in SessionIds :
    LET list == GetChatMessages(messages, s)
    IN /\ Len(list) = 2
       /\ list[1].sender = "user" /\ list[2].sender = "bot"
       /\ list[1].timestamp < list[2].timestamp

\* C13: generation is not retried: once the job of a message has called the
\* generator it never calls it again and never spawns a second process, and a
\* message that is failed stays failed.
C13_NoRetry ==
  [][ \A m \in DOMAIN life :
        /\ life[m].pc \in {"running", "bot", "done"}
             => life'[m].pc \in {"running", "bot", "done"}
        /\ life[m].proc \in {"errored", "closed"} => life'[m].proc # "alive"
        /\ messages[m].processingStatus = "failed"
             => messages'[m].processingStatus = "failed" ]_vars

\* C13 witness: a message is failed, its job has ended, and its process has
\* closed and its timer fired since.
C13_Witness ==
  \E m \in DOMAIN life :
    /\ UserMessage(m) /\ messages[m].processingStatus = "failed"
    /\ life[m].pc = "done" /\ life[m].proc = "closed" /\ ~life[m].timer
    /\ life[m].result[1].error = "Traceback"

\* C14: submit answers without waiting for generation: when the generator is
\* called for a user message the handler has already answered 200, the answer
\* comes after the handler's own writes (the message and one file record per
\* attachment), and no later outcome of the generator changes the answer.
C14_AnswerBeforeGeneration ==
  /\ [] \A m \in DOMAIN life :
          /\ ( /\ UserMessage(m)
               /\ \/ life[m].pc \in {"running", "bot", "done"}
                  \/ life[m].proc # "none"
                  \/ life[m].result # NoResult )
             => (life[m].resp # << >> /\ life[m].resp[1].code = 200)
          /\ life[m].resp # << >>
             => /\ m \in DOMAIN messages
                /\ Cardinality({f \in DOMAIN files : files[f].messageId = m})
                     = life[m].nFiles
  /\ [][ \A m \in DOMAIN life :
           life[m].resp # << >> => life'[m].resp = life[m].resp ]_vars

\* C14 witness: a user message submitted with an attachment was answered 200 and
\* its generation timed out afterwards.
C14_Witness ==
  \E m \in DOMAIN life :
    /\ UserMessage(m) /\ life[m].nFiles > 0
    /\ life[m].resp # << >> /\ life[m].resp[1].code = 200
    /\ life[m].pc = "done" /\ life[m].result[1] = Failure(TimeoutError)

\* the place of message id in the list of its session
PlaceInList(id) ==
  LET list == GetChatMessages(messages, messages[id].sessionId)
  IN CHOOSE i \in 1 .. Len(list) : list[i].id = id

\* C15: the bot replies of one session stand in the session's list in the order
\* in which their generator calls completed, whatever the order of submission.
C15_RepliesInCompletionOrder ==
  \A m1, m2 \in DOMAIN life :
    \A b1 \in life[m1].bots, b2 \in life[m2].bots :
      (m1 # m2 /\ messages[m1].sessionId = messages[m2].sessionId)
      => (PlaceInList(b1) < PlaceInList(b2) <=> life[m1].nth < life[m2].nth)

\* C15 witness: two user messages of one session were generated at once and the
\* reply to the later one stands before the reply to the earlier one.
C15_Witness ==
  \E m1, m2 \in DOMAIN life :
    \E b1 \in life[m1].bots, b2 \in life[m2].bots :
      /\ m1 < m2 /\ messages[m1].sessionId = messages[m2].sessionId
      /\ PlaceInList(m1) < PlaceInList(m2)
      /\ PlaceInList(b2) < PlaceInList(b1)
      /\ life[m2].nth < life[m1].nth

\* the poll response p holds every message the widget has sent, each of them
\* already answered to the widget
Current(p) ==
  /\ widget.acked = widget.sent
  /\ Len(SelectSeq(polls[p].list, LAMBDA m : m.sender = "user")) = widget.sent

\* C11: when the latest user message of the session has failed (and no earlier
\* one is still under generation), the poll response that shows it leaves fast
\* polling stopped, whatever the session held before, earlier bot replies
\* included.  Only responses whose messages were all created at different times
\* are looked at.
C11_FailureStopsPolling ==
  [][ \A p \in DOMAIN polls :
        ( /\ PollDone(p) /\ Current(p)
          /\ \A i, j \in 1 .. Len(polls[p].list) :
                i < j => polls[p].list[i].timestamp < polls[p].list[j].timestamp
          /\ Latest(polls[p].list, "user") # << >>
          /\ Latest(polls[p].list, "user")[1].processingStatus = "failed"
          /\ \A i \in 1 .. Len(polls[p].list) :
                polls[p].list[i].sender = "user"
                  => polls[p].list[i].processingStatus \in {"completed", "failed"} )
        => widget'.fastPollingInterval = Null ]_vars

\* C16: a poll response that satisfies stop condition (a) or stop condition (b)
\* leaves fast polling stopped and the input enabled, each condition on its own.
C16_StopConditionStopsAndEnables ==
  [][ \A p \in DOMAIN polls :
        ( /\ PollDone(p) /\ Current(p)
          /\ StopA(polls[p].list) \/ ~HasPendingMessages(polls[p].list) )
        => /\ widget'.fastPollingInterval = Null
           /\ ~widget'.inputDisabled ]_vars

\* C17: the step that closes the widget, by the close button or by the trigger
\* button, leaves no polling interval behind to issue a further tick, and it
\* changes nothing on the server.
C17_CloseStopsPolling ==
  [][ widget.isOpen /\ ~widget'.isOpen
        => /\ widget'.fastPollingInterval = Null
           /\ UNCHANGED srvVars ]_vars

\* C18: at most one poll request is in flight: a tick of the polling interval is
\* issued only when no message-list fetch is unresolved.
C18_OnePollInFlight ==
  [][ IntervalTick => \A p \in DOMAIN polls : ~PollInFlight(p) ]_vars

\* C19: a feedback request is rejected, and no feedback record is created or
\* changed, when its session does not exist, a field is missing, its messageId is
\* not a number or its isHelpful is not a boolean: only a request that is none of
\* these writes the feedback store.
C19_BadFeedbackWritesNothing ==
  [][ feedback' # feedback =>
        \E r \in DOMAIN fb :
          /\ fb[r].pc = "lookup" /\ fb'[r].pc = "write"
          /\ fb[r].session
          /\ Truthy(fb[r].sessionId) /\ Truthy(fb[r].messageId)
          /\ ParseInt(fb[r].messageId) # NaN
          /\ fb[r].isHelpful \in {"true", "false"} ]_vars

\* C20: session open is idempotent: a request with a sessionId the store holds is
\* answered the record held under it and changes nothing in the session store; a
\* request without a sessionId adds one session under an id the store did not
\* hold and leaves the other sessions as they were.
C20_OpenIdempotent ==
  [][ \A r \in DOMAIN open :
        /\ ( /\ open[r].pc = "idle" /\ open'[r].pc = "lookup"
             /\ open'[r].sessionId \in DOMAIN sessions )
           => /\ open'[r].found
              /\ open'[r].existingSession = sessions[open'[r].sessionId]
              /\ sessions' = sessions /\ sessionIdCounter' = sessionIdCounter
        /\ ( open[r].pc = "lookup" /\ open[r].found /\ open'[r].pc # "lookup" )
           => /\ OpenAnswer(r).sessionId = open[r].sessionId
              /\ open'[r].pc = "idle"
              /\ sessions' = sessions /\ sessionIdCounter' = sessionIdCounter
        /\ ( open[r].pc = "idle" /\ open'[r].pc = "created" )
           => \E id \in DOMAIN sessions' \ DOMAIN sessions :
                /\ DOMAIN sessions' = DOMAIN sessions \cup {id}
                /\ sessions'[id].sessionId = id
                /\ \A other \in DOMAIN sessions :
                     /\ sessions'[other] = sessions[other]
                     /\ sessions'[id].id # sessions[other].id ]_vars

\* C20 witness: a session made without a sessionId is opened again under the id it
\* was given, by a request that names another website than the one stored.
C20_Witness ==
  \E r \in DOMAIN open :
    /\ open[r].pc = "lookup" /\ open[r].found
    /\ open[r].sessionId = NanoId
    /\ open[r].website # Undefined
    /\ sessions[NanoId].website = Null

\* C21: a status request changes no store; for a message the store holds it
\* answers the status stored with the message and the generator output stored
\* with it (null while none is stored), and for a messageId the store does not
\* hold, a number or not, it answers not found.
C21_StatusIsPureRead ==
  [][ statusReq' # statusReq =>
        /\ UNCHANGED << msgVars, fbVars >>
        /\ statusReq'.pc = "lookup" =>
             statusReq'.found = (statusReq'.messageId \in DOMAIN messages)
        /\ statusReq'.pc = "idle" =>
             LET id == statusReq.messageId
                 answer == statusReq'.answer
             IN IF statusReq.found
                  THEN /\ answer.code = 200
                       /\ answer.status = messages[id].processingStatus
                       /\ IF messages[id].pythonResponse = Null
                            THEN answer.pythonResponse = JNull
                            ELSE JSONStringify(answer.pythonResponse)
                                   = messages[id].pythonResponse
                       /\ Settled(id) /\ life[id].result[1].success
                            => answer.pythonResponse = life[id].result[1].output
                  ELSE answer.code = 404 ]_vars

\* C21 witness: a status request for a completed message was answered completed
\* with the generator's output.
C21_Witness ==
  /\ statusReq.pc = "idle" /\ statusReq.answer.code = 200
  /\ statusReq.answer.status = "completed"
  /\ statusReq.answer.pythonResponse = JObject({<<"response", "hi there">>})
  /\ statusReq.messageId \in DOMAIN messages
  /\ messages[statusReq.messageId].processingStatus = "completed"

\* C22: getFeedbackForMessage, called for a message no record of the feedback
\* store names, returns nothing (no record, no error: the handler goes on to the
\* write) and leaves the feedback store as it was.
C22_NoVoteIsAbsent ==
  [][ \A r \in DOMAIN fb :
        ( /\ fb[r].pc = "session" /\ fb[r].session
          /\ FeedbackRows(feedback, ParseInt(fb[r].messageId)) = {}
          /\ fb'[r] # fb[r] )
        => /\ fb'[r].pc = "lookup"
           /\ fb'[r].existing = 0
           /\ feedback' = feedback /\ feedbackIdCounter' = feedbackIdCounter ]_vars

\* C22 witness: the lookup found nothing for its message while the store holds
\* a vote on another message.
C22_Witness ==
  \E r \in DOMAIN fb :
    /\ fb[r].pc = "lookup" /\ fb[r].existing = 0
    /\ FeedbackRows(feedback, ParseInt(fb[r].messageId)) = {}
    /\ feedback # << >>

\* what the generator may print that is not empty and is no JSON text
RawTexts == {out \in Stdouts : out # "" /\ ~JSONParse(out).ok}

\* C24: a run of the generator that exits 0 with output that is not empty and
\* is no JSON text counts as a success whose response is that output: the user
\* message ends completed and the one bot reply has the output as its body.
C24_RawOutputAccepted ==
  \A raw \in RawTexts :
    /\ CloseResult(0, raw, "") = Success(JObject({<<"response", raw>>}))
    /\ \A m \in DOMAIN life :
         (Settled(m) /\ life[m].result = << CloseResult(0, raw, "") >>)
         => /\ messages[m].processingStatus = "completed"
            /\ Cardinality(life[m].bots) = 1
            /\ \A b \in life[m].bots :
                 messages[b].sender = "bot" /\ messages[b].message = raw

\* C24 witness: a job has finished whose generator printed text that is no JSON.
C24_Witness ==
  \E m \in DOMAIN life, raw \in RawTexts :
    /\ Settled(m) /\ life[m].result = << CloseResult(0, raw, "") >>
    /\ \E b \in life[m].bots : messages[b].message = raw

\* C25: a run of the generator that ends with a non-zero exit, with a spawn or
\* transport error, with the timeout, or with exit 0 and empty output is a
\* failure: the user message ends failed and no bot message is created.
C25_MalformedOutputFails ==
  \A m \in DOMAIN life :
    ( /\ Settled(m)
      /\ \/ \E exit \in ProcessExits :
               /\ exit[1] # 0 \/ exit[2] = ""
               /\ life[m].result = << CloseResult(exit[1], exit[2], exit[3]) >>
         \/ life[m].result = << Failure("Failed to execute Python script") >>
         \/ life[m].result = << Failure(TimeoutError) >> )
    => /\ messages[m].processingStatus = "failed"
       /\ life[m].bots = {}

\* C26: a session record, once stored under a sessionId, stays as it is: every
\* later state holds the same internal id, website and createdAt under that
\* sessionId, whatever session requests run and however they interleave.  Only
\* the sessionIds that requests supply are looked at, not those nanoid() makes.
C26_SessionsNeverMutated ==
  [][ \A id \in DOMAIN sessions \cap SessionIds :
        id \in DOMAIN sessions' /\ sessions'[id] = sessions[id] ]_vars

\* C30: every stored feedback record names a message the store holds, of sender
\* bot.
C30_FeedbackNamesBotMessage ==
  \A f \in DOMAIN feedback :
    /\ feedback[f].messageId \in DOMAIN messages
    /\ messages[feedback[f].messageId].sender = "bot"

\* C27: a send is made only while the input is enabled, and it disables the
\* input as it issues its request, starting no polling yet; the ok answer of
\* the server starts the polling interval; a request that fails or is answered
\* with an error enables the input and starts no polling; and a disabled input
\* becomes enabled only by such a failure or by a poll response that meets stop
\* condition (a) or (b).
C27_SendDisablesThenPolls ==
  [][ /\ widget'.sent > widget.sent
         => /\ ~widget.inputDisabled /\ widget'.inputDisabled
            /\ widget'.sent = widget.sent + 1
            /\ widget'.fastPollingInterval = widget.fastPollingInterval
      /\ widget'.acked > widget.acked
         => widget'.fastPollingInterval = Interval
      /\ widget'.sent < widget.sent
         => /\ ~widget'.inputDisabled
            /\ widget'.fastPollingInterval = widget.fastPollingInterval
      /\ widget.inputDisabled /\ ~widget'.inputDisabled
         => \/ widget'.sent < widget.sent
            \/ \E p \in DOMAIN polls :
                 /\ PollDone(p)
                 /\ StopA(polls[p].list) \/ ~HasPendingMessages(polls[p].list) ]_vars

\* C27 witness: the server has accepted a message of the widget, the polling
\* interval runs and the input is still disabled.
C27_Witness ==
  /\ widget.acked > 0 /\ widget.acked = widget.sent
  /\ widget.fastPollingInterval = Interval
  /\ widget.inputDisabled

\* ------------------------------------------------- the feedback controls
\* a step in which submitFeedback handles an answer with success for slot r
VoteSucceeds(r) ==
  widget.voting[r].st = "sent" /\ widget'.voting[r].st = "idle" /\ fb[r].pc = "write"

\* a step in which submitFeedback gives up for slot r: no answer with success
VoteFails(r) ==
  widget.voting[r].st = "sent" /\ widget'.voting[r].st = "idle" /\ fb[r].pc # "write"

\* a step of changeFeedback: the remembered vote is forgotten and the thanks go
ChangesFeedback ==
  widget.feedbackGiven /\ ~widget'.feedbackGiven /\ widget.thanks # {} /\ widget'.thanks = {}

C28_ChangeFeedbackIsLocal ==
  [][ /\ ChangesFeedback =>
            /\ widget'.controls = { t[1] : t \in widget.thanks }
            /\ widget'.voting = widget.voting
            /\ polls' = polls
            /\ fb' = fb /\ feedback' = feedback /\ feedbackIdCounter' = feedbackIdCounter
            /\ messages' = messages /\ sessions' = sessions
            /\ \A t \in widget.thanks :
                  \E f \in DOMAIN feedback : feedback[f].messageId = t[1]
      /\ \A f \in DOMAIN feedback :
            f \in DOMAIN feedback' /\ feedback'[f].messageId = feedback[f].messageId
      /\ \A r \in 1 .. MaxFbReqs :
            /\ (fb[r].pc = "session" /\ fb'[r].pc = "lookup"
                  /\ \E f \in DOMAIN feedback :
                        feedback[f].messageId = ParseInt(fb[r].messageId))
                 => fb'[r].existing \in DOMAIN feedback
                    /\ feedback[fb'[r].existing].messageId = ParseInt(fb[r].messageId)
            /\ (fb[r].pc = "lookup" /\ fb'[r].pc = "write" /\ fb[r].existing # 0)
                 => /\ fb'[r].action = "updated"
                    /\ fb'[r].feedbackId = fb[r].existing
                    /\ DOMAIN feedback' = DOMAIN feedback
                    /\ feedback'[fb[r].existing].isHelpful = fb[r].isHelpful ]_vars

\* C28 witness: after a vote was answered and "Change feedback" was clicked, the
\* only vote under way, made with the controls shown again, has been written
\* as an update.
C28_Witness ==
  \E r \in 1 .. MaxFbReqs :
    /\ widget.voting[r].st = "sent" /\ fb[r].pc = "write" /\ fb[r].action = "updated"
    /\ \A q \in 1 .. MaxFbReqs : q # r => widget.voting[q].st = "idle" /\ ~InFlight(q)
    /\ ~widget.feedbackGiven /\ widget.sent = 1
    /\ widget.controls = { widget.voting[r].messageId }
    /\ Cardinality(DOMAIN feedback) = 1

\* C29: when changeFeedback renders the controls again, the remembered vote is
\* still the one the thanks named, and the controls highlight it.
C29_PreviousChoiceShown ==
  [][ ChangesFeedback =>
        /\ widget'.currentFeedback = widget.currentFeedback
        /\ \E t \in widget.thanks : widget'.highlight = t[2] ]_vars

\* ------------------------------------------------------- refused submits
\* C32: a submit whose payload fails validation is answered with a status of
\* the client-error class (4xx), and its step writes nothing to the message
\* and attachment stores.
C32_InvalidSubmitIsClientError ==
  [][ (refused'.route = "/api/chat/message" /\ refused' # refused)
        => /\ refused'.status \in 400 .. 499
           /\ UNCHANGED << messages, files >> ]_vars

\* ------------------------------------------------- no outstanding work
\* C33: in a session whose user messages have all reached completed or failed,
\* no message of the session's list is pending or processing.
C33_SettledSessionListsNoPending ==
  \A s \in SessionIds :
    LET list == GetChatMessages(messages, s)
    IN (\A i \in 1 .. Len(list) :
          list[i].sender = "user" => list[i].processingStatus \in {"completed", "failed"})
       => ~HasPendingMessages(list)

\* ------------------------------------------------ one verdict for each call
\* C36: once a generator call has its result, no later close, error or timeout
\* changes it; these events change no message and create none; a user message
\* that is completed stays completed and one that is failed stays failed; and a
\* user message gets at most one bot reply.
C36_OutcomeDecidedOnce ==
  [][ /\ \A m \in DOMAIN life :
            /\ life[m].result # NoResult => life'[m].result = life[m].result
            /\ (life[m].pc = life'[m].pc
                   /\ (life'[m].proc # life[m].proc \/ life'[m].timer # life[m].timer))
                 => messages' = messages /\ messageIdCounter' = messageIdCounter
      /\ \A m \in DOMAIN messages :
            messages[m].processingStatus \in {"completed", "failed"}
              => messages'[m].processingStatus = messages[m].processingStatus
      /\ \A m \in DOMAIN life' : Cardinality(life'[m].bots) <= 1 ]_vars

\* C36 witness: the process closed with success, the timer fired after that,
\* and the job ran to its end: the message is completed and has its one reply.
C36_Witness ==
  \E m \in DOMAIN life :
    /\ life[m].proc = "closed" /\ ~life[m].timer /\ life[m].pc = "done"
    /\ life[m].result # NoResult /\ life[m].result[1].success
    /\ messages[m].processingStatus = "completed"
    /\ Cardinality(life[m].bots) = 1

\* --------------------------------------------- the stored generator output
\* C38: a user message that is pending or processing has no stored generator
\* output, and one that is completed or failed has one; the step to processing
\* stores none and each step to a terminal status stores one.
C38_OutputIffTerminal ==
  [][ \A m \in DOMAIN messages' :
        messages'[m].sender = "user" =>
          /\ messages'[m].processingStatus \in {"pending", "processing"}
                => messages'[m].pythonResponse = Null
          /\ messages'[m].processingStatus \in {"completed", "failed"}
                => /\ Truthy(messages'[m].pythonResponse)
                   /\ JSONParse(messages'[m].pythonResponse).ok ]_vars

\* C38 witness: a user message failed and its error payload is stored.
C38_Witness ==
  \E m \in DOMAIN messages :
    /\ messages[m].sender = "user" /\ messages[m].processingStatus = "failed"
    /\ Truthy(messages[m].pythonResponse)
    /\ life[m].pc = "done"

\* --------------------------------------------------- the reply in the list
\* C37: a list the server answers to a poll never holds a user message that is
\* completed without holding a bot reply of that message.
C37_CompletedComesWithReply ==
  \A p \in DOMAIN polls :
    polls[p].st = "answered" =>
      LET list == polls[p].list
      IN \A i \in 1 .. Len(list) :
           (list[i].sender = "user" /\ list[i].processingStatus = "completed")
             => \E j \in 1 .. Len(list) :
                   list[j].sender = "bot" /\ list[j].id \in life[list[i].id].bots

\* C37 witness: a poll was answered with a completed user message and its reply.
C37_Witness ==
  \E p \in DOMAIN polls :
    /\ polls[p].st = "answered"
    /\ \E i, j \in 1 .. Len(polls[p].list) :
          /\ polls[p].list[i].sender = "user"
          /\ polls[p].list[i].processingStatus = "completed"
          /\ polls[p].list[j].sender = "bot"
          /\ polls[p].list[j].id \in life[polls[p].list[i].id].bots

\* ------------------------------------------------ a session's own feedback
\* C39: when a feedback request of session s for message m with vote h has
\* been written, getFeedback(s) holds a record for m with isHelpful = h.
C39_VoteListedForItsSession ==
  [][ \A r \in 1 .. MaxFbReqs :
        (fb[r].pc = "lookup" /\ fb'[r].pc = "write")
          => LET listed == GetFeedback(feedback', fb[r].sessionId)
             IN \E i \in 1 .. Len(listed) :
                  /\ listed[i].messageId = ParseInt(fb[r].messageId)
                  /\ listed[i].isHelpful = fb[r].isHelpful ]_vars

\* ------------------------------------------------------- the rate limits
\* the step is a request of the route that the limiter answers with 429
Answers429(route) ==
  refused' # refused /\ refused'.status = 429 /\ refused'.route = route

\* C31: in one window of a client at most FeedbackMaxRequests feedback
\* requests pass; once that many have passed in a running window the limiter
\* refuses the next; a feedback request answered 429 leaves the stores, the
\* count and the window as they were; and none is refused once the window of
\* its client is over.
C31_FeedbackLimitedPerWindow ==
  [][ /\ \A key \in ClientIps :
            /\ passed'[key].of["/api/feedback"] <= FeedbackMaxRequests
            /\ (passed'[key].of["/api/feedback"] = FeedbackMaxRequests
                   /\ ~WindowOver(rateLimitStore', key, clock'))
                 => TooMany(rateLimitStore', key, clock', FeedbackMaxRequests)
      /\ Answers429("/api/feedback") =>
            /\ UNCHANGED << rateLimitStore, passed, msgVars, fbVars >>
            /\ ~WindowOver(rateLimitStore, refused'.ip, clock) ]_vars

\* C31 witness: in its second window a client has had FeedbackMaxRequests
\* feedback requests pass and nothing else, and its next one was answered 429.
C31_Witness ==
  \E key \in ClientIps :
    /\ refused = [ route |-> "/api/feedback", ip |-> key, status |-> 429 ]
    /\ passed[key].windows = 2
    /\ passed[key].of["/api/feedback"] = FeedbackMaxRequests
    /\ passed[key].of["/api/chat/session"] = 0 /\ passed[key].of["/api/chat/message"] = 0
    /\ feedback # << >>

\* C40: a request of a route is answered 429 only when the maximum of that
\* route has passed for its client on that route in the window.
C40_QuotaPerRoute ==
  [][ /\ Answers429("/api/feedback")
            => passed[refused'.ip].of["/api/feedback"] >= FeedbackMaxRequests
      /\ Answers429("/api/chat/message")
            => passed[refused'.ip].of["/api/chat/message"] >= MessageMaxRequests
      /\ Answers429("/api/chat/session")
            => passed[refused'.ip].of["/api/chat/session"] >= SessionMaxRequests ]_vars

\* ------------------------------------------------------- late responses
\* the user message of the widget's session that the server stored last
LastSubmitted ==
  LET own == {m \in DOMAIN messages :
                messages[m].sessionId = widget.sessionId /\ messages[m].sender = "user"}
  IN IF own = {} THEN 0 ELSE CHOOSE m \in own : \A k \in own : k <= m

\* C34: when every submit of the widget has been stored and answered and the
\* widget polls fast with its input disabled, a poll response stops the polling
\* and enables the input only if the message sent last is no longer pending or
\* processing on the server.
C34_LateResponseKeepsWaiting ==
  [][ ( /\ widget.sent > 0 /\ widget.acked = widget.sent /\ PostsUnderWay = 0
        /\ widget.fastPollingInterval # Null /\ widget.inputDisabled
        /\ widget'.fastPollingInterval = Null /\ ~widget'.inputDisabled
        /\ widget'.isOpen )
      => messages[LastSubmitted].processingStatus \notin {"pending", "processing"} ]_vars

\* ------------------------------------------------- submission comes back
\* C35: whenever the widget is open with its input disabled and the message
\* it sent is completed or failed on the server, later the input is enabled
\* or the widget is closed.  Histories in which two messages carry the same
\* timestamp are left aside: a reply takes longer than a millisecond to
\* generate.
C35_SubmissionComesBack ==
  [] ( ( /\ widget.isOpen /\ widget.inputDisabled
         /\ LastSubmitted # 0 /\ PostsUnderWay = 0
         /\ messages[LastSubmitted].processingStatus \in {"completed", "failed"} )
       => <> ( \/ ~widget.inputDisabled
               \/ ~widget.isOpen
               \/ \E i, j \in DOMAIN messages :
                     i # j /\ messages[i].timestamp = messages[j].timestamp ) )

====
